---- MODULE Spec2Model ----
(***************************************************************************)
(* pngme: hiding messages in the chunks of a PNG file.                     *)
(*                                                                         *)
(* Bytes are the naturals 0..255, byte strings and Vec<u8> are sequences   *)
(* (index 1 is Rust's index 0).  A u32 is the pair <<hi, lo>> of its two   *)
(* 16-bit halves, so that every value of the full width is represented.    *)
(* A Result is a record with the field ok and either val or err; err is    *)
(* the message the code builds its Error from.                             *)
(***************************************************************************)
EXTENDS Integers, Sequences, FiniteSets, TLC

VARIABLES
    tbytes,   \* ChunkType: the bytes handed to try_from / from_str
    tres,     \* ChunkType: the operation applied to tbytes and its Result
    chunk,    \* Chunk: the chunk built by Chunk::new
    wire,     \* Chunk: the byte buffer handed to Chunk::try_from
    damage,   \* Chunk: what happened to the buffer since as_bytes
    cres,     \* Chunk: the Result of Chunk::try_from(wire), once called
    fs,       \* commands: the file system, path -> contents
    last      \* commands: the last command run, its arguments and outcome

vars == <<tbytes, tres, chunk, wire, damage, cres, fs, last>>

typeVars == <<tbytes, tres>>
chunkVars == <<chunk, wire, damage, cres>>
cmdVars == <<fs, last>>

----------------------------------------------------------------------------
(* Bounds of the model *)

\* longest string handed to from_str
MaxStrLen == 5
\* longest payload of a chunk built in the Chunk specification
MaxData == 2
\* most chunks a file holds
MaxChunks == 2

----------------------------------------------------------------------------
(* Results *)

Ok(v) == [ok |-> TRUE, val |-> v]
Err(e) == [ok |-> FALSE, err |-> e]

\* the messages of the errors the code returns
ErrChunkData == "incorrect chunk data"
ErrChunkType == "incorrect chunk type"
ErrCrc == "error"
ErrLen == "len not equal 4"
ErrTryInto == "could not convert slice to array"

----------------------------------------------------------------------------
(* u8 / u32 arithmetic *)

RECURSIVE XorN(_, _)
XorN(a, b) ==
    IF a = 0 THEN b
    ELSE IF b = 0 THEN a
    ELSE (((a % 2) + (b % 2)) % 2) + 2 * XorN(a \div 2, b \div 2)

\* a ^ b on bytes
Xor8 == [a \in 0..255 |-> [b \in 0..255 |-> XorN(a, b)]]

\* a ^ b on 16-bit halves
Xor16(a, b) ==
    Xor8[a \div 256][b \div 256] * 256 + Xor8[a % 256][b % 256]

\* u32::to_be_bytes
to_be_bytes(u) == <<u[1] \div 256, u[1] % 256, u[2] \div 256, u[2] % 256>>

\* u32::from_be_bytes
from_be_bytes(b) == <<b[1] * 256 + b[2], b[3] * 256 + b[4]>>

\* n as u32, for the lengths the model reaches (n < 2^16)
AsU32(n) == <<0, n>>

\* the first n bytes of s and the rest: Read::read on a slice with a buffer
\* of n bytes copies min(n, len) bytes and advances the slice past them
ReadSize(s, n) == IF Len(s) < n THEN Len(s) ELSE n
ReadBuf(s, n) ==
    [i \in 1..n |-> IF i <= Len(s) THEN s[i] ELSE 0]
ReadRest(s, n) == SubSeq(s, ReadSize(s, n) + 1, Len(s))

----------------------------------------------------------------------------
(* chunk_type.rs *)

\* ChunkType::check_valid
check_validOffByOne(chunks) ==
    Cardinality({i \in 1..Len(chunks) :
        (chunks[i] >= 65 /\ chunks[i] <= 91)
     \/ (chunks[i] >= 97 /\ chunks[i] <= 122)}) = 4

check_valid(chunks) ==
    Cardinality({i \in 1..Len(chunks) :
        (chunks[i] >= 65 /\ chunks[i] <= 90)
     \/ (chunks[i] >= 97 /\ chunks[i] <= 122)}) = 4

\* ChunkType::bytes
bytes(t) == t.chunk

\* self.chunk[k] >> 5 & 1
Bit5(b) == (b \div 32) % 2

is_critical(t) == Bit5(t.chunk[1]) = 0

is_public(t) == Bit5(t.chunk[2]) = 0

is_reserved_bit_validWrongByte(t) == Bit5(t.chunk[4]) = 0

is_reserved_bit_valid(t) == Bit5(t.chunk[3]) = 0

is_safe_to_copy(t) == Bit5(t.chunk[4]) = 1

is_valid(t) == is_reserved_bit_valid(t) /\ check_valid(t.chunk)

\* impl TryFrom<[u8; 4]> for ChunkType
ChunkType_try_from(value) ==
    IF ~check_valid(value) THEN Err(ErrChunkType)
    ELSE Ok([chunk |-> value])

\* impl FromStr for ChunkType
ChunkType_from_str(s) ==
    LET chunk0 == ReadBuf(s, 4)
        size == ReadSize(s, 4)
    IN  IF size # 4 THEN Err(ErrLen)
        ELSE ChunkType_try_from(chunk0)

----------------------------------------------------------------------------
(* chunk.rs *)

\* a ^ b on u32
Xor32(a, b) == <<Xor16(a[1], b[1]), Xor16(a[2], b[2])>>

\* c >> 1 and c >> 8 on u32
Shr1(c) == <<c[1] \div 2, (c[2] \div 2) + (c[1] % 2) * 32768>>
Shr8(c) == <<c[1] \div 256, (c[2] \div 256) + (c[1] % 256) * 256>>

\* 0xEDB88320, the polynomial 0x04C11DB7 of CRC_32_ISO_HDLC reflected
PolyReflected == <<60856, 33568>>

\* n steps of the reflected CRC register: shift right, and xor the
\* polynomial in when the bit shifted out is set
RECURSIVE CrcBits(_, _)
CrcBits(c, n) ==
    IF n = 0 THEN c
    ELSE CrcBits(IF c[2] % 2 = 1 THEN Xor32(Shr1(c), PolyReflected)
                 ELSE Shr1(c), n - 1)

\* the byte table of the digest
CrcTable == [b \in 0..255 |-> CrcBits(<<0, b>>, 8)]

\* crc = table[(crc ^ byte) & 0xFF] ^ (crc >> 8)
CrcUpdate(c, b) == Xor32(CrcTable[Xor8[c[2] % 256][b]], Shr8(c))

\* the register after the bytes of s; the register is a u32, and testing
\* it at each byte has it computed byte by byte
RECURSIVE CrcDigest(_, _)
CrcDigest(c, s) ==
    IF Len(s) = 0 \/ c[1] > 65535 THEN c
    ELSE CrcDigest(CrcUpdate(c, Head(s)), Tail(s))

\* Chunk::checksum: CRC_32_ISO_HDLC, init 0xFFFFFFFF, xorout 0xFFFFFFFF
checksum(s) == Xor32(CrcDigest(<<65535, 65535>>, s), <<65535, 65535>>)

\* Chunk::new
Chunk_new(chunk_type, data) == [chunk_type |-> chunk_type, data |-> data]

\* Chunk::length
length(c) == Len(c.data)

\* Chunk::chunk_length
chunk_length(c) == length(c) + 4 + 4 + 4

\* Chunk::chunk_type
chunk_type_of(c) == c.chunk_type

\* Chunk::crc
crc(c) == checksum(bytes(c.chunk_type) \o c.data)

\* Chunk::as_bytes
as_bytesCrcOfData(c) ==
    to_be_bytes(AsU32(length(c)))
        \o bytes(c.chunk_type) \o c.data \o to_be_bytes(checksum(c.data))

as_bytesLeLength(c) ==
    <<length(c) % 256, length(c) \div 256, 0, 0>>
        \o bytes(c.chunk_type) \o c.data \o to_be_bytes(crc(c))

as_bytes(c) ==
    to_be_bytes(AsU32(length(c)))
        \o bytes(c.chunk_type) \o c.data \o to_be_bytes(crc(c))

\* value.len() < length + 4 + 4, with length a u32 widened to usize; the
\* buffers of the model are shorter than 2^16 bytes
ShorterThan(n, len32) == len32[1] > 0 \/ n < len32[2] + 4 + 4

\* impl TryFrom<&[u8]> for Chunk, from the crc comparison on: chunk is the
\* type array read, chunk_type the Result of its validation
ChunkCheckedNoCrc(chunk0, chunk_type, data, raw_crc) ==
    IF ~chunk_type.ok THEN Err(chunk_type.err)
    ELSE Ok([chunk_type |-> chunk_type.val, data |-> data])

ChunkCheckedLowHalf(chunk0, chunk_type, data, raw_crc) ==
    IF ~chunk_type.ok THEN Err(chunk_type.err)
    ELSE IF checksum(chunk0 \o data)[2] # raw_crc[2] THEN Err(ErrCrc)
    ELSE Ok([chunk_type |-> chunk_type.val, data |-> data])

ChunkChecked(chunk0, chunk_type, data, raw_crc) ==
    IF ~chunk_type.ok THEN Err(chunk_type.err)
    ELSE IF checksum(chunk0 \o data) # raw_crc THEN Err(ErrCrc)
    ELSE Ok([chunk_type |-> chunk_type.val, data |-> data])

\* impl TryFrom<&[u8]> for Chunk, once the length is read: value is the
\* rest of the buffer
ChunkBodyTypeFirst(len32, value) ==
    IF ~ChunkType_try_from(ReadBuf(value, 4)).ok THEN Err(ErrChunkType)
    ELSE IF ShorterThan(Len(value), len32) THEN Err(ErrChunkData)
    ELSE ChunkChecked(
            ReadBuf(value, 4),
            ChunkType_try_from(ReadBuf(value, 4)),
            ReadBuf(ReadRest(value, 4), len32[2]),
            from_be_bytes(
                ReadBuf(ReadRest(ReadRest(value, 4), len32[2]), 4)))

ChunkBody(len32, value) ==
    IF ShorterThan(Len(value), len32) THEN Err(ErrChunkData)
    ELSE ChunkChecked(
            ReadBuf(value, 4),
            ChunkType_try_from(ReadBuf(value, 4)),
            ReadBuf(ReadRest(value, 4), len32[2]),
            from_be_bytes(
                ReadBuf(ReadRest(ReadRest(value, 4), len32[2]), 4)))

\* impl TryFrom<&[u8]> for Chunk
Chunk_try_from(value) ==
    IF Len(value) < 4 THEN Err(ErrChunkData)
    ELSE ChunkBody(from_be_bytes(ReadBuf(value, 4)), ReadRest(value, 4))

----------------------------------------------------------------------------
(* Inputs *)

\* "RuSt", "Rust", "zAbZ", "Ru1t", "RuS" as the bytes of a &str
RuSt == <<82, 117, 83, 116>>
Rust == <<82, 117, 115, 116>>
zAbZ == <<122, 65, 98, 90>>
Ru1t == <<82, 117, 49, 116>>
RuS == <<82, 117, 83>>

\* the bytes next to the ends of A-Z and a-z
EdgeBytes == {64, 65, 90, 91, 96, 97, 122, 123}
\* 'R', 't', '1'
StrBytes == {82, 116, 49}
\* payload bytes
DataBytes == {0, 72, 255}

SeqsUpTo(S, n) == UNION {[1..k -> S] : k \in 0..n}

NoTypeRes == [op |-> "none", res |-> Err("")]
NoChunkRes == [done |-> FALSE, res |-> Err("")]
NoDamage(k) == [kind |-> k, pos |-> 0, bit |-> 0]
NoChunk == Chunk_new([chunk |-> RuSt], <<>>)

----------------------------------------------------------------------------
(* ChunkType: the constructors applied to an input *)

InitIdleType == tbytes = <<>> /\ tres = NoTypeRes
InitIdleChunk ==
    chunk = NoChunk /\ wire = <<>> /\ damage = NoDamage("idle")
        /\ cres = NoChunkRes

\* ChunkType::try_from(value) on a [u8; 4]
TypeTryFrom ==
    /\ tres.op = "none"
    /\ Len(tbytes) = 4
    /\ tres' = [op |-> "try_from", res |-> ChunkType_try_from(tbytes)]
    /\ UNCHANGED <<tbytes, chunkVars, cmdVars>>

\* ChunkType::from_str(s)
TypeFromStr ==
    /\ tres.op = "none"
    /\ tres' = [op |-> "from_str", res |-> ChunkType_from_str(tbytes)]
    /\ UNCHANGED <<tbytes, chunkVars, cmdVars>>

----------------------------------------------------------------------------
(* Chunk: a chunk is built, serialized, damaged on the way or not, parsed *)

Pow2(b) == 2 ^ b

\* chunk.as_bytes()
Serialize ==
    /\ damage.kind = "new"
    /\ wire' = as_bytes(chunk)
    /\ damage' = NoDamage("intact")
    /\ UNCHANGED <<chunk, cres, typeVars, cmdVars>>

\* bit b of byte i of the buffer is flipped before parsing
FlipBit(i, b) ==
    /\ damage.kind = "intact"
    /\ ~cres.done
    /\ wire' = [wire EXCEPT ![i] = Xor8[@][Pow2(b)]]
    /\ damage' = [kind |-> "flip", pos |-> i, bit |-> b]
    /\ UNCHANGED <<chunk, cres, typeVars, cmdVars>>

\* only the first n bytes of the buffer arrive
Truncate(n) ==
    /\ damage.kind = "intact"
    /\ ~cres.done
    /\ wire' = SubSeq(wire, 1, n)
    /\ damage' = [kind |-> "cut", pos |-> n, bit |-> 0]
    /\ UNCHANGED <<chunk, cres, typeVars, cmdVars>>

\* the buffer goes on after the chunk, as it does inside a file
Extend(b) ==
    /\ damage.kind = "intact"
    /\ ~cres.done
    /\ wire' = wire \o <<b>>
    /\ damage' = [kind |-> "extend", pos |-> Len(wire) + 1, bit |-> 0]
    /\ UNCHANGED <<chunk, cres, typeVars, cmdVars>>

\* Chunk::try_from(wire)
Parse ==
    /\ damage.kind \notin {"idle", "new"}
    /\ ~cres.done
    /\ cres' = [done |-> TRUE, res |-> Chunk_try_from(wire)]
    /\ UNCHANGED <<chunk, wire, damage, typeVars, cmdVars>>

----------------------------------------------------------------------------
(* png.rs *)

None == [some |-> FALSE]
Some(v) == [some |-> TRUE, val |-> v]

ErrSignature == "BadSignature"

\* Png::STANDARD_HEADER
STANDARD_HEADER == <<137, 80, 78, 71, 13, 10, 26, 10>>

\* a chunk in front of the Result of parsing the chunks after it
Prepend(c, more) == IF ~more.ok THEN more ELSE Ok(<<c>> \o more.val)

\* the chunks of a buffer, one after the other until it is exhausted; the
\* first chunk that fails to parse fails the whole
RECURSIVE ParseChunks(_), ParseNext(_, _)
ParseChunks(rest) ==
    IF Len(rest) = 0 THEN Ok(<<>>)
    ELSE ParseNext(Chunk_try_from(rest), rest)

ParseNext(r, rest) ==
    IF ~r.ok THEN Err(r.err)
    ELSE Prepend(r.val,
            ParseChunks(SubSeq(rest, chunk_length(r.val) + 1, Len(rest))))

PngOf(r) == IF ~r.ok THEN Err(r.err) ELSE Ok([chunks |-> r.val])

\* impl TryFrom<&[u8]> for Png
Png_try_from(value) ==
    IF Len(value) < 8 \/ SubSeq(value, 1, 8) # STANDARD_HEADER
    THEN Err(ErrSignature)
    ELSE PngOf(ParseChunks(SubSeq(value, 9, Len(value))))

\* Png::chunks
chunks(png) == png.chunks

\* the indices of the chunks of the type
OfType(png, chunk_type) ==
    {i \in 1..Len(png.chunks) : bytes(png.chunks[i].chunk_type) = chunk_type}

Least(S) == IF S = {} THEN 0 ELSE CHOOSE i \in S : \A j \in S : i <= j

\* the index of the first chunk of the type, 0 if there is none
FirstOfType(png, chunk_type) == Least(OfType(png, chunk_type))

ChunkAt(png, i) == IF i = 0 THEN None ELSE Some(png.chunks[i])

\* Png::chunk_by_type
chunk_by_type(png, chunk_type) == ChunkAt(png, FirstOfType(png, chunk_type))

\* Png::append_chunk
append_chunk(png, c) == [chunks |-> Append(png.chunks, c)]

RemoveAt(png, i) ==
    IF i = 0 THEN [png |-> png, removed |-> None]
    ELSE [png |-> [chunks |-> SubSeq(png.chunks, 1, i - 1)
                       \o SubSeq(png.chunks, i + 1, Len(png.chunks))],
          removed |-> Some(png.chunks[i])]

\* Png::remove_chunk: the container without the chunk, and the chunk
remove_chunk(png, chunk_type) == RemoveAt(png, FirstOfType(png, chunk_type))

RECURSIVE ConcatChunks(_)
ConcatChunks(cs) ==
    IF Len(cs) = 0 THEN <<>>
    ELSE as_bytes(Head(cs)) \o ConcatChunks(Tail(cs))

\* Png::as_bytes
Png_as_bytes(png) == STANDARD_HEADER \o ConcatChunks(png.chunks)

----------------------------------------------------------------------------
(* commands.rs *)

Paths == {"a.png", "b.png"}
NoFile == [exists |-> FALSE, data |-> <<>>]
File(d) == [exists |-> TRUE, data |-> d]

ErrNoFile == "No such file or directory"

\* Commands::read_file
read_file(f, path) ==
    IF f[path].exists THEN Ok(f[path].data) ELSE Err(ErrNoFile)

\* Commands::write_file
write_file(f, path, content) == [f EXCEPT ![path] = File(content)]

\* Png::try_from(png_data.as_slice()), png_data the Result of read_file
PngOfDataLenient(png_data) ==
    IF ~png_data.ok THEN Err(png_data.err)
    ELSE IF Png_try_from(png_data.val).ok THEN Png_try_from(png_data.val)
    ELSE Ok([chunks |-> <<>>])

PngOfData(png_data) ==
    IF ~png_data.ok THEN Err(png_data.err) ELSE Png_try_from(png_data.val)

\* Commands::png_from_file
png_from_file(f, path) == PngOfData(read_file(f, path))

\* what a command leaves behind: the file system, its Result, the paths
\* it wrote and the container it held when it returned
Outcome(f, res, wrote, png) ==
    [fs |-> f, res |-> res, wrote |-> wrote, png |-> png]

\* chunk_type.as_bytes().try_into()? and ChunkType::try_from(bytes)?
TypeOfArg(chunk_type) ==
    IF Len(chunk_type) # 4 THEN Err(ErrTryInto)
    ELSE ChunkType_try_from(chunk_type)

\* Commands::encode, the write
EncodeWrite(f, png, p) ==
    Outcome(write_file(f, p, Png_as_bytes(png)), Ok(<<>>), <<p>>, Some(png))

\* Commands::encode, from the construction of the chunk on: png is the
\* container after the removal, t the Result of building the type
EncodeTyped(f, png, t, path, chunk_type, message, output) ==
    IF ~t.ok THEN Outcome(f, Err(t.err), <<>>, Some(png))
    ELSE EncodeWrite(f,
            append_chunk(png, Chunk_new(t.val, message)),
            IF output.some THEN output.val ELSE path)

\* Commands::encode, once the file is read: r is the Result of png_from_file
EncodeParsed(f, r, path, chunk_type, message, output) ==
    IF ~r.ok THEN Outcome(f, Err(r.err), <<>>, None)
    ELSE EncodeTyped(f,
            IF chunk_by_type(r.val, chunk_type).some
            THEN remove_chunk(r.val, chunk_type).png
            ELSE r.val,
            TypeOfArg(chunk_type), path, chunk_type, message, output)

\* Commands::encode
encode(f, path, chunk_type, message, output) ==
    EncodeParsed(f, png_from_file(f, path), path, chunk_type, message, output)

\* Commands::remove, after remove_chunk: rm is the container and the
\* chunk removed from it
RemoveDoneAlwaysWrite(f, rm, path) ==
    Outcome(write_file(f, path, Png_as_bytes(rm.png)),
            Ok(<<>>), <<path>>, Some(rm.png))

RemoveDone(f, rm, path) ==
    IF rm.removed.some
    THEN Outcome(write_file(f, path, Png_as_bytes(rm.png)),
                 Ok(<<>>), <<path>>, Some(rm.png))
    ELSE Outcome(f, Ok(<<>>), <<>>, Some(rm.png))

\* Commands::remove, once the file is read
RemoveParsed(f, r, path, chunk_type) ==
    IF ~r.ok THEN Outcome(f, Err(r.err), <<>>, None)
    ELSE RemoveDone(f, remove_chunk(r.val, chunk_type), path)

\* Commands::remove
remove(f, path, chunk_type) ==
    RemoveParsed(f, png_from_file(f, path), path, chunk_type)

----------------------------------------------------------------------------
(* The commands run on the files *)

\* 'A', the message hidden; 'B', the payload of the chunks already there
Messages == {<<65>>}
FilePayloads == {<<66>>}
CmdTypes == {RuSt, Rust, Ru1t, RuS}
FileChunks ==
    {Chunk_new([chunk |-> t], d) : t \in {RuSt, Rust}, d \in FilePayloads}

\* the files a command may meet: the containers of the chunks above, whole,
\* with one bit flipped, or cut short
SoundFiles ==
    {Png_as_bytes([chunks |-> cs]) : cs \in SeqsUpTo(FileChunks, MaxChunks)}
FlippedFiles ==
    UNION {{[d EXCEPT ![i] = Xor8[@][Pow2(b)]] : i \in 1..Len(d), b \in {0, 6}}
              : d \in SoundFiles}
CutFiles == UNION {{SubSeq(d, 1, n) : n \in 0..(Len(d) - 1)} : d \in SoundFiles}
InitFiles == SoundFiles \cup FlippedFiles \cup CutFiles

NoCommand ==
    [cmd |-> "none", path |-> "", chunk_type |-> <<>>, message |-> <<>>,
     output |-> None, before |-> [p \in Paths |-> NoFile],
     res |-> Ok(<<>>), wrote |-> <<>>, png |-> None]

InitIdleCmd == fs = [p \in Paths |-> NoFile] /\ last = NoCommand

\* the containers of the model stay within MaxChunks chunks
Fits(o) == o.png.some => Len(o.png.val.chunks) <= MaxChunks

\* pngme encode <path> -c <chunk_type> -m <message> [-o <output>]
Encode(path, chunk_type, message, output) ==
    \E o \in {encode(fs, path, chunk_type, message, output)} :
        /\ Fits(o)
        /\ fs' = o.fs
        /\ last' = [cmd |-> "encode", path |-> path,
                    chunk_type |-> chunk_type, message |-> message,
                    output |-> output, before |-> fs,
                    res |-> o.res, wrote |-> o.wrote, png |-> o.png]
        /\ UNCHANGED <<typeVars, chunkVars>>

\* pngme remove <path> -c <chunk_type>
Remove(path, chunk_type) ==
    \E o \in {remove(fs, path, chunk_type)} :
        /\ fs' = o.fs
        /\ last' = [cmd |-> "remove", path |-> path,
                    chunk_type |-> chunk_type, message |-> <<>>,
                    output |-> None, before |-> fs,
                    res |-> o.res, wrote |-> o.wrote, png |-> o.png]
        /\ UNCHANGED <<typeVars, chunkVars>>

----------------------------------------------------------------------------
(* Specifications *)

InitType ==
    /\ tbytes \in [1..4 -> EdgeBytes] \cup SeqsUpTo(StrBytes, MaxStrLen)
    /\ tres = NoTypeRes
    /\ InitIdleChunk
    /\ InitIdleCmd

NextType == TypeTryFrom \/ TypeFromStr

SpecType == InitType /\ [][NextType]_vars

InitChunk ==
    /\ chunk \in {Chunk_new(ChunkType_from_str(n).val, d) :
                     n \in {RuSt, zAbZ}, d \in SeqsUpTo(DataBytes, MaxData)}
    /\ wire = <<>>
    /\ damage = NoDamage("new")
    /\ cres = NoChunkRes
    /\ InitIdleType
    /\ InitIdleCmd

NextChunk ==
    \/ Serialize
    \/ \E i \in 1..Len(wire), b \in 0..7 : FlipBit(i, b)
    \/ \E n \in 0..(Len(wire) - 1) : Truncate(n)
    \/ \E b \in DataBytes : Extend(b)
    \/ Parse

SpecChunk == InitChunk /\ [][NextChunk]_vars

Init ==
    /\ fs \in {[p \in Paths |-> IF p = "a.png" THEN File(d) ELSE NoFile] :
                  d \in InitFiles}
    /\ last = NoCommand
    /\ InitIdleType
    /\ InitIdleChunk

Next ==
    \/ \E path \in Paths, chunk_type \in CmdTypes, message \in Messages,
          output \in {None, Some("b.png")} :
            Encode(path, chunk_type, message, output)
    \/ \E path \in Paths, chunk_type \in CmdTypes : Remove(path, chunk_type)

Spec == Init /\ [][Next]_vars

----------------------------------------------------------------------------
(* Properties of ChunkType, under SpecType *)

IsUpper(b) == b \in 65..90
IsLower(b) == b \in 97..122
IsLetter(b) == IsUpper(b) \/ IsLower(b)

\* C3: from_str fails for every string whose byte length is not exactly 4,
\* shorter or longer, and for a string of exactly 4 bytes it returns what
\* try_from returns on those 4 bytes.
C3_FromStrLength ==
    tres.op = "from_str" =>
        /\ Len(tbytes) # 4 => ~tres.res.ok
        /\ Len(tbytes) = 4 => tres.res = ChunkType_try_from(tbytes)

\* C4: try_from on 4 bytes succeeds if and only if each byte is an ASCII
\* letter; on success bytes() is the input; every ChunkType that exists,
\* whichever constructor built it, has 4 alphabetic bytes.
C4_TryFromIffLetters ==
    /\ tres.op = "try_from" =>
        /\ tres.res.ok <=> \A i \in 1..4 : IsLetter(tbytes[i])
        /\ tres.res.ok => bytes(tres.res.val) = tbytes
    /\ (tres.op # "none" /\ tres.res.ok) =>
        /\ Len(bytes(tres.res.val)) = 4
        /\ \A i \in 1..4 : IsLetter(bytes(tres.res.val)[i])

C4_Witness ==
    /\ tres.op = "try_from"
    /\ tres.res.ok
    /\ tbytes = <<65, 90, 97, 122>>

\* C7: for every constructed ChunkType, is_critical holds iff byte 0 is
\* uppercase, is_public iff byte 1 is uppercase, is_reserved_bit_valid iff
\* byte 2 is uppercase, is_safe_to_copy iff byte 3 is lowercase, and
\* is_valid iff is_reserved_bit_valid.
C7_FlagsAreCase ==
    (tres.op # "none" /\ tres.res.ok) =>
        /\ is_critical(tres.res.val) <=> IsUpper(bytes(tres.res.val)[1])
        /\ is_public(tres.res.val) <=> IsUpper(bytes(tres.res.val)[2])
        /\ is_reserved_bit_valid(tres.res.val)
               <=> IsUpper(bytes(tres.res.val)[3])
        /\ is_safe_to_copy(tres.res.val) <=> IsLower(bytes(tres.res.val)[4])
        /\ is_valid(tres.res.val) <=> is_reserved_bit_valid(tres.res.val)

C7_Witness ==
    /\ tres.op = "try_from"
    /\ tres.res.ok
    /\ is_critical(tres.res.val)
    /\ ~is_public(tres.res.val)
    /\ ~is_reserved_bit_valid(tres.res.val)
    /\ ~is_valid(tres.res.val)
    /\ is_safe_to_copy(tres.res.val)

----------------------------------------------------------------------------
(* Properties of Chunk, under SpecChunk *)

\* the regions of the serialized chunk: length 1..4, type 5..8, payload,
\* crc
InType(i) == i \in 5..8
InPayload(i) == i \in 9..(8 + Len(chunk.data))

\* C1: parsing the bytes as_bytes produced for Chunk::new(type, payload)
\* succeeds and gives a chunk of the same type bytes, the same payload and
\* the same crc, which is the crc on the wire.
C1_ChunkRoundTrip ==
    (cres.done /\ damage.kind = "intact") =>
        /\ cres.res.ok
        /\ bytes(chunk_type_of(cres.res.val)) = bytes(chunk_type_of(chunk))
        /\ cres.res.val.data = chunk.data
        /\ crc(cres.res.val) = crc(chunk)
        /\ to_be_bytes(crc(cres.res.val))
               = SubSeq(wire, Len(wire) - 3, Len(wire))

C1_Witness ==
    /\ cres.done
    /\ damage.kind = "intact"
    /\ Len(chunk.data) = 2
    /\ chunk.data[1] # chunk.data[2]

\* C2, as stated: a single bit flipped in the type or the payload region of
\* a serialized chunk makes parsing fail with the checksum error.
C2_FlipIsChecksumError ==
    (cres.done /\ damage.kind = "flip"
        /\ (InType(damage.pos) \/ InPayload(damage.pos))) =>
        /\ ~cres.res.ok
        /\ cres.res.err = ErrCrc

\* C2, amended: such a flip makes parsing fail; with the invalid-type error
\* when the flipped byte is a type byte that is no longer an ASCII letter,
\* with the checksum error otherwise.
C2_FlipFails ==
    (cres.done /\ damage.kind = "flip"
        /\ (InType(damage.pos) \/ InPayload(damage.pos))) =>
        /\ ~cres.res.ok
        /\ cres.res.err =
              IF InType(damage.pos) /\ ~IsLetter(wire[damage.pos])
              THEN ErrChunkType ELSE ErrCrc

C2_Witness ==
    /\ cres.done
    /\ damage.kind = "flip"
    /\ InPayload(damage.pos)
    /\ ~cres.res.ok

----------------------------------------------------------------------------
(* Properties of the commands, under Spec *)

\* the file the last command read, and the container in it
ReadData == last.before[last.path].data
WasRead == last.cmd # "none" /\ last.before[last.path].exists
Wrote == Len(last.wrote) > 0

\* a type string usable as an encode target: 4 letters, the third uppercase
ValidTypeArg(s) == Len(s) = 4 /\ is_valid([chunk |-> s])

\* C5: when Encode succeeds on a container that holds at least one chunk of
\* the target type, the container written holds exactly one chunk of that
\* type, with the new message as payload, and it is the last chunk.
C5_ReplaceNotDuplicate ==
    (/\ last.cmd = "encode" /\ last.res.ok /\ WasRead
     /\ Png_try_from(ReadData).ok
     /\ OfType(Png_try_from(ReadData).val, last.chunk_type) # {}) =>
        /\ Wrote
        /\ fs[last.wrote[1]] = File(Png_as_bytes(last.png.val))
        /\ Cardinality(OfType(last.png.val, last.chunk_type)) = 1
        /\ OfType(last.png.val, last.chunk_type)
               = {Len(last.png.val.chunks)}
        /\ last.png.val.chunks[Len(last.png.val.chunks)].data = last.message

\* C6: Encode with a type string that is not valid (4 letters, the third
\* uppercase) appends no chunk and writes no file.
C6_EncodeNeedsValidType ==
    (last.cmd = "encode" /\ ~ValidTypeArg(last.chunk_type)) =>
        /\ ~Wrote
        /\ fs = last.before
        /\ (WasRead /\ last.png.some) =>
              last.png.val \in
                  {Png_try_from(ReadData).val,
                   remove_chunk(Png_try_from(ReadData).val,
                                last.chunk_type).png}

\* C8: the container a command holds, built by parsing and then removing
\* and appending chunks, serializes to bytes that parse to the same chunks,
\* the same number in the same order; it is what a file written holds.
C8_PngRoundTrip ==
    /\ last.png.some =>
          Png_try_from(Png_as_bytes(last.png.val)) = Ok(last.png.val)
    /\ Wrote =>
          /\ fs[last.wrote[1]].exists
          /\ SubSeq(fs[last.wrote[1]].data, 1, 8) = STANDARD_HEADER
          /\ Png_try_from(fs[last.wrote[1]].data) = Ok(last.png.val)

C8_Witness ==
    /\ last.cmd = "encode"
    /\ Wrote
    /\ Len(last.png.val.chunks) = 2
    /\ bytes(last.png.val.chunks[1].chunk_type) = Rust
    /\ bytes(last.png.val.chunks[2].chunk_type) = RuSt

\* C9: when the parse of the file read fails, Encode and Remove end with
\* that error, hold no container and write nothing; a file is written only
\* after the whole file parsed.
C9_WholeOrNothing ==
    (last.cmd \in {"encode", "remove"} /\ WasRead) =>
        /\ ~Png_try_from(ReadData).ok =>
              /\ last.res = Err(Png_try_from(ReadData).err)
              /\ ~Wrote
              /\ fs = last.before
              /\ ~last.png.some
        /\ Wrote => Png_try_from(ReadData).ok

C9_Witness ==
    /\ last.cmd = "encode"
    /\ WasRead
    /\ Len(ReadData) > 8
    /\ SubSeq(ReadData, 1, 8) = STANDARD_HEADER
    /\ ~Png_try_from(ReadData).ok
    /\ Png_try_from(ReadData).err = ErrCrc
    /\ ~last.res.ok

\* C10: removing a type that no chunk of the container has returns none
\* and leaves the chunks as they are, and Remove then writes no file and
\* reports no error.
C10_RemoveAbsent ==
    (/\ last.cmd = "remove" /\ WasRead /\ Png_try_from(ReadData).ok
     /\ OfType(Png_try_from(ReadData).val, last.chunk_type) = {}) =>
        /\ remove_chunk(Png_try_from(ReadData).val, last.chunk_type)
               = [png |-> Png_try_from(ReadData).val, removed |-> None]
        /\ last.png = Some(Png_try_from(ReadData).val)
        /\ ~Wrote
        /\ last.res = Ok(<<>>)
        /\ fs = last.before

C10_Witness ==
    /\ last.cmd = "remove"
    /\ WasRead
    /\ last.chunk_type = Rust
    /\ Png_try_from(ReadData).ok
    /\ Len(Png_try_from(ReadData).val.chunks) = 2
    /\ OfType(Png_try_from(ReadData).val, last.chunk_type) = {}

----------------------------------------------------------------------------
(* Properties of Chunk::try_from on any buffer, under SpecChunk *)

\* the buffer as the wire format lays it out: the length L in the first 4
\* bytes, then 4 type bytes, L payload bytes and the 4 bytes of the crc
WireLen32 == from_be_bytes(SubSeq(wire, 1, 4))
WireShort ==
    \/ Len(wire) < 4
    \/ WireLen32[1] > 0
    \/ Len(wire) - 4 < WireLen32[2] + 8
WireType == SubSeq(wire, 5, 8)
WirePayload == SubSeq(wire, 9, 8 + WireLen32[2])
WireCrc == SubSeq(wire, 9 + WireLen32[2], 12 + WireLen32[2])
WireTypeValid == \A i \in 1..4 : IsLetter(WireType[i])

\* C11: try_from succeeds only if the 4 big-endian bytes after the payload
\* are the CRC-32 of the type bytes and the payload; with a valid type and
\* a buffer long enough, a different stored crc makes it fail with the
\* checksum error, and no chunk is returned.
C11_NoChunkWithBadCrc ==
    cres.done =>
        /\ cres.res.ok =>
              /\ ~WireShort
              /\ WireCrc = to_be_bytes(checksum(WireType \o WirePayload))
              /\ WireCrc = to_be_bytes(crc(cres.res.val))
        /\ (/\ ~WireShort /\ WireTypeValid
            /\ WireCrc # to_be_bytes(checksum(WireType \o WirePayload))) =>
              cres.res = Err(ErrCrc)

C11_Witness ==
    /\ cres.done
    /\ damage.kind = "flip"
    /\ damage.pos > 8 + Len(chunk.data)
    /\ ~WireShort
    /\ WireTypeValid
    /\ ~cres.res.ok

\* C12: try_from fails with the truncation error when the buffer has fewer
\* than 4 bytes or, the length L read, fewer than L + 8 bytes remain,
\* whatever the type bytes and the crc are; a successful parse uses the
\* first L + 12 bytes, the chunk_length() of the result, and is the parse
\* of those bytes alone.
C12_TruncationDetected ==
    cres.done =>
        /\ WireShort => cres.res = Err(ErrChunkData)
        /\ cres.res.ok =>
              /\ chunk_length(cres.res.val) = WireLen32[2] + 12
              /\ chunk_length(cres.res.val) <= Len(wire)
              /\ length(cres.res.val) = WireLen32[2]
              /\ cres.res.val.data = WirePayload
              /\ cres.res
                     = Chunk_try_from(
                           SubSeq(wire, 1, chunk_length(cres.res.val)))

C12_Witness ==
    /\ cres.done
    /\ damage.kind = "cut"
    /\ damage.pos \in 4..7
    /\ cres.res = Err(ErrChunkData)

====
